---- MODULE Spec2Model ----
(***************************************************************************)
(* Static discovery of test classes (avocado/core/safeloader/core.py).     *)
(*                                                                         *)
(* find_python_tests walks the classes of one source file; for a class     *)
(* without an enable/disable directive it resolves the base classes, first *)
(* in the same file (_examine_same_module), then across files              *)
(* (_examine_class through the import table), merging method lists and a   *)
(* boolean match flag.  The recursion of the source is modelled by an      *)
(* explicit call stack: stack[1] is the activation of find_python_tests,   *)
(* every further frame is one activation of _examine_class.                *)
(***************************************************************************)
EXTENDS Integers, Sequences, FiniteSets, TLC

(***************************************************************************)
(* Bounds of the model.                                                    *)
(***************************************************************************)
\* classes declared in the scanned file
MaxClassesA == 2
\* classes declared in the imported file
MaxClassesB == 2
\* interpreter recursion limit, counted in activations on the stack
MaxDepth == 7

None == "None"

(***************************************************************************)
(* Syntax trees.  A base-class expression is an ast.Name (has .id), an     *)
(* ast.Attribute whose value is a Name (value.id and attr), or an          *)
(* ast.Attribute whose value is itself an Attribute (a.b.Class).           *)
(***************************************************************************)
Name(id) == [kind |-> "Name", id |-> id, attr |-> ""]
Attribute(value, attr) == [kind |-> "Attribute", id |-> value, attr |-> attr]
Nested(attr) == [kind |-> "Nested", id |-> "", attr |-> attr]

\* the directives of a docstring: flags, tags and requirements
Doc(flags, tags, reqs) == [flags |-> flags, tags |-> tags, reqs |-> reqs]
NoDoc == Doc({}, {}, <<>>)

\* a def statement of a class body
Def(name, doc) == [name |-> name, doc |-> doc]

\* a class statement
ClassDef(name, doc, bases, body) ==
    [name |-> name, doc |-> doc, bases |-> bases, body |-> body]

\* import table entries: "from mod import name" and "import mod"
ImportFrom(mod, name) == [kind |-> "from", mod |-> mod, name |-> name]
Import(mod) == [kind |-> "import", mod |-> mod, name |-> ""]

(***************************************************************************)
(* docstring.py                                                            *)
(***************************************************************************)
check_docstring_directive(doc, directive) == directive \in doc.flags
get_docstring_directives(doc) == doc.flags
get_docstring_directives_tags(doc) == doc.tags
get_docstring_directives_requirements(doc) == doc.reqs

\* str.startswith('test') on the method names of the model
StartsWithTest(name) == name \in {"test_a", "test_b", "test_c"}

(***************************************************************************)
(* Generic helpers.                                                        *)
(***************************************************************************)
Range(s) == {s[i] : i \in 1..Len(s)}

SeqsUpTo(S, n) == UNION {[1..m -> S] : m \in 0..n}

\* list.remove(x): drops the first element equal to x
RECURSIVE ListRemove(_, _)
ListRemove(s, x) ==
    IF s = <<>> THEN <<>>
    ELSE IF Head(s) = x THEN Tail(s)
    ELSE <<Head(s)>> \o ListRemove(Tail(s), x)

MethodNames(info) == {info[i].name : i \in 1..Len(info)}

UniqueNames(info) == \A i, j \in 1..Len(info) : info[i].name = info[j].name => i = j

IsPrefix(s, t) == Len(s) <= Len(t) /\ \A i \in 1..Len(s) : s[i] = t[i]

(***************************************************************************)
(* State.                                                                  *)
(*   files            the source files on the search path (never changes)  *)
(*   determine_match  the match strategy of the entry point in use         *)
(*   pc               "run", "done" (find_python_tests returned) or         *)
(*                    "raised" (an exception left find_python_tests)       *)
(*   stack            the activations: stack[1] find_python_tests, then    *)
(*                    nested _examine_class calls                          *)
(*   result           the OrderedDict of find_python_tests                 *)
(***************************************************************************)
VARIABLES files, determine_match, pc, stack, result

vars == <<files, determine_match, pc, stack, result>>

\* find_avocado_tests / find_python_unittests fix the target identity
target_module == IF determine_match = "avocado" THEN "avocado" ELSE "unittest"
target_class == IF determine_match = "avocado" THEN "Test" ELSE "TestCase"

(***************************************************************************)
(* module.py: PythonModule.  imported_objects maps a local name to the     *)
(* path of what it imports, kept as its components                         *)
(* <<directory, module>> or <<directory, module, name>>.                   *)
(***************************************************************************)
ImportedPath(imp) ==
    IF imp.kind = "from" THEN <<"dir", imp.mod, imp.name>> ELSE <<"dir", imp.mod>>

PythonModule(path) ==
    LET f == files[path] IN
    [path |-> path,
     classes |-> f.classes,
     imported_objects |-> [a \in DOMAIN f.imports |-> ImportedPath(f.imports[a])],
     klass_imports |-> {a \in DOMAIN f.imports :
                           /\ f.imports[a].kind = "from"
                           /\ f.imports[a].mod = target_module
                           /\ f.imports[a].name = target_class},
     mod_imports |-> {a \in DOMAIN f.imports :
                           /\ f.imports[a].kind = "import"
                           /\ f.imports[a].mod = target_module}]

\* PythonModule.is_matching_klass: the class names the target as a base
is_matching_klass(module, klass) ==
    \/ \E i \in 1..Len(klass.bases) :
          /\ klass.bases[i].kind = "Name"
          /\ klass.bases[i].id \in module.klass_imports
    \/ \E i \in 1..Len(klass.bases) :
          /\ klass.bases[i].kind = "Attribute"
          /\ klass.bases[i].id \in module.mod_imports
          /\ klass.bases[i].attr = target_class

\* os.path.dirname / os.path.basename on path components
dirname(p) == SubSeq(p, 1, Len(p) - 1)
basename(p) == p[Len(p)]

\* PathFinder.find_spec(...).origin: the file of a module, None if there is none
find_spec(parent_module) ==
    IF parent_module \in DOMAIN files THEN parent_module ELSE None

(***************************************************************************)
(* core.py: the pure helpers.                                              *)
(***************************************************************************)
RECURSIVE MethodsLoop(_, _, _, _)
MethodsLoop(body, class_tags, class_requirements, methods_info) ==
    IF body = <<>> THEN methods_info
    ELSE LET st == Head(body)
             mt_tags == get_docstring_directives_tags(st.doc) \cup class_tags
             mt_requirements ==
                 get_docstring_directives_requirements(st.doc) \o class_requirements
             next == IF StartsWithTest(st.name) /\ st.name \notin MethodNames(methods_info)
                     THEN Append(methods_info,
                                 [name |-> st.name, tags |-> mt_tags,
                                  reqs |-> mt_requirements, decl |-> <<>>])
                     ELSE methods_info
         IN MethodsLoop(Tail(body), class_tags, class_requirements, next)

\* faulty variant: the class-level tags are not combined into the entries
get_methods_info_no_class_tags(statement_body, class_tags, class_requirements) ==
    MethodsLoop(statement_body, {}, class_requirements, <<>>)

\* the (name, tags, requirements) tuples of the test methods of a class body.
\* decl is a history field: the class statement an entry was built from.
get_methods_info(statement_body, class_tags, class_requirements) ==
    MethodsLoop(statement_body, class_tags, class_requirements, <<>>)

\* the method list of class statement k of module path
OwnInfo(path, k) ==
    LET klass == files[path].classes[k]
        info == get_methods_info(klass.body,
                                 get_docstring_directives_tags(klass.doc),
                                 get_docstring_directives_requirements(klass.doc))
    IN [i \in 1..Len(info) |-> [info[i] EXCEPT !.decl = <<path, k>>]]

RECURSIVE ExtendLoop(_, _)
ExtendLoop(current, new) ==
    IF new = <<>> THEN current
    ELSE ExtendLoop(IF Head(new).name \notin MethodNames(current)
                    THEN Append(current, Head(new)) ELSE current,
                    Tail(new))

\* used by the faulty variant of _extend_test_list below
RECURSIVE PrependLoop(_, _)
PrependLoop(current, new) ==
    IF new = <<>> THEN current
    ELSE PrependLoop(IF new[Len(new)].name \notin MethodNames(current)
                     THEN <<new[Len(new)]>> \o current ELSE current,
                     SubSeq(new, 1, Len(new) - 1))

\* faulty variant: new entries are put in front of the list
_extend_test_list_in_front(current, new) == PrependLoop(current, new)

_extend_test_list(current, new) == ExtendLoop(current, new)

ClassNotSuitable == "ClassNotSuitable"

\* (parent_path, parent_module, parent_class); exc names the exception raised
\* instead, if any
_get_attributes_for_further_examination(parent, module) ==
    LET unsuitable == [exc |-> ClassNotSuitable, parent_path |-> <<>>,
                       parent_module |-> None, parent_class |-> None]
    IN
    IF parent.kind # "Name"
    THEN IF parent.kind = "Attribute"
         THEN IF parent.id \notin DOMAIN module.imported_objects
              THEN unsuitable
              ELSE LET _parent == module.imported_objects[parent.id] IN
                   [exc |-> None,
                    parent_path |-> dirname(_parent),
                    parent_module |-> basename(_parent),
                    parent_class |-> parent.attr]
         ELSE unsuitable
    ELSE IF parent.id \notin DOMAIN module.imported_objects
         THEN unsuitable
         ELSE LET _parent == module.imported_objects[parent.id]
                  n == Len(_parent)
              IN [exc |-> None,
                  parent_path |-> SubSeq(_parent, 1, n - 2),
                  parent_module |-> _parent[n - 1],
                  parent_class |-> _parent[n]]

_determine_match_avocado(module, klass, docstring) ==
    LET directives == get_docstring_directives(docstring) IN
    IF "disable" \in directives THEN TRUE
    ELSE IF "enable" \in directives THEN TRUE
    ELSE IF "recursive" \in directives THEN TRUE
    ELSE is_matching_klass(module, klass)

_determine_match_unittest(module, klass, docstring) ==
    is_matching_klass(module, klass)

DetermineMatch(module, klass, docstring) ==
    IF determine_match = "avocado"
    THEN _determine_match_avocado(module, klass, docstring)
    ELSE _determine_match_unittest(module, klass, docstring)

(***************************************************************************)
(* The source files the model explores.  File "a" is the one scanned, file *)
(* "b" is a module it can import; each imports the target class and the    *)
(* target module, "a" imports class B of "b" and module "b", "b" imports   *)
(* class A of "a".  No file exists for the target module itself.           *)
(***************************************************************************)
ImportsA(tm, tc) ==
    (tc :> ImportFrom(tm, tc)) @@ (tm :> Import(tm))
    @@ ("B" :> ImportFrom("b", "B")) @@ ("b" :> Import("b"))

ImportsB(tm, tc) ==
    (tc :> ImportFrom(tm, tc)) @@ (tm :> Import(tm)) @@ ("A" :> ImportFrom("a", "A"))

\* the class statements file "a" may declare
PoolA(tm, tc) ==
    { \* class A(Test): test_a, setUp
      ClassDef("A", Doc({}, {"ca"}, <<"ra">>), <<Name(tc)>>,
               <<Def("test_a", Doc({}, {"m"}, <<"rm">>)), Def("setUp", NoDoc)>>),
      \* class B(A): test_b
      ClassDef("B", Doc({}, {"cb"}, <<>>), <<Name("A")>>,
               <<Def("test_b", NoDoc)>>),
      \* class B(A): test_a, overriding the inherited one
      ClassDef("B", NoDoc, <<Name("A")>>,
               <<Def("test_a", Doc({}, {"o"}, <<>>))>>),
      \* class A(Test, b.B, x.y.B), disabled
      ClassDef("A", Doc({"disable"}, {}, <<>>),
               <<Name(tc), Attribute("b", "B"), Nested("B")>>,
               <<Def("test_a", NoDoc)>>),
      \* class B(A), enabled, test_b defined twice
      ClassDef("B", Doc({"enable"}, {"cb"}, <<>>), <<Name("A")>>,
               <<Def("test_b", Doc({}, {"m"}, <<>>)), Def("test_b", NoDoc)>>),
      \* class B(unresolved.B)
      ClassDef("B", NoDoc, <<Attribute("unresolved", "B")>>,
               <<Def("test_b", NoDoc)>>),
      \* class B(unresolved.B), recursive
      ClassDef("B", Doc({"recursive"}, {}, <<>>), <<Attribute("unresolved", "B")>>,
               <<Def("test_b", NoDoc)>>),
      \* class A(B): test_a, B defined here or imported from "b"
      ClassDef("A", NoDoc, <<Name("B")>>,
               <<Def("test_a", NoDoc)>>) }

\* the class statements file "b" may declare
PoolB(tm, tc) ==
    { \* class B(avocado.Test): test_a, test_c
      ClassDef("B", Doc({}, {"cl"}, <<>>), <<Attribute(tm, tc)>>,
               <<Def("test_a", Doc({}, {"ml"}, <<>>)), Def("test_c", NoDoc)>>),
      \* class B, disabled
      ClassDef("B", Doc({"disable"}, {}, <<>>), <<>>,
               <<Def("test_b", NoDoc)>>),
      \* class B(A): test_a, A imported from "a"
      ClassDef("B", NoDoc, <<Name("A")>>,
               <<Def("test_a", NoDoc)>>) }

FileSystems(dm) ==
    LET tm == IF dm = "avocado" THEN "avocado" ELSE "unittest"
        tc == IF dm = "avocado" THEN "Test" ELSE "TestCase"
    IN { ("a" :> [imports |-> ImportsA(tm, tc), classes |-> ca])
         @@ ("b" :> [imports |-> ImportsB(tm, tc), classes |-> cb]) :
           ca \in SeqsUpTo(PoolA(tm, tc), MaxClassesA),
           cb \in SeqsUpTo(PoolB(tm, tc), MaxClassesB) }

(***************************************************************************)
(* Activations.                                                            *)
(*   k       index of the class statement the for loop is at (0: none yet) *)
(*   phase   "iter": at the head of the loop over module.iter_classes()    *)
(*           "same": inside _examine_same_module, at copy[i]               *)
(*           "cross": in the loop over the remaining parents, at parents[i]*)
(*   parents klass.bases, which _examine_same_module mutates               *)
(*   copy    the parents[:] that _examine_same_module iterates             *)
(*   first   history field: what the first class examined by the call gave *)
(***************************************************************************)
Driver == "find_python_tests"
Examine == "_examine_class"

\* find_python_tests(target_module, target_class, determine_match, path): entry
DriverFrame(path) ==
    [fn |-> Driver, path |-> path, class_name |-> None, k |-> 0, phase |-> "iter",
     match |-> FALSE, info |-> <<>>, disabled |-> {}, parents |-> <<>>,
     copy |-> <<>>, i |-> 0, first |-> <<>>]

\* _examine_class(..., path, class_name, match): entry
ExamineFrame(path, class_name, match) ==
    [fn |-> Examine, path |-> path, class_name |-> class_name, k |-> 0,
     phase |-> "iter", match |-> match, info |-> <<>>, disabled |-> {},
     parents |-> <<>>, copy |-> <<>>, i |-> 0, first |-> <<>>]

Top == stack[Len(stack)]
SetTop(f) == [stack EXCEPT ![Len(stack)] = f]

TypeOK ==
    /\ pc \in {"run", "done", "raised"}
    /\ determine_match \in {"avocado", "unittest"}
    /\ Len(stack) \in 1..MaxDepth
    /\ stack[1].fn = Driver
    /\ \A d \in 2..Len(stack) : stack[d].fn = Examine

Init ==
    /\ determine_match \in {"avocado", "unittest"}
    /\ files \in FileSystems(determine_match)
    /\ pc = "run"
    /\ stack = <<DriverFrame("a")>>
    /\ result = <<>>

(***************************************************************************)
(* The steps of find_python_tests and _examine_class.                      *)
(***************************************************************************)
SetMin(S) == CHOOSE x \in S : \A y \in S : x <= y
SetMax(S) == CHOOSE x \in S : \A y \in S : x >= y

\* indices of the class statements of a file that carry a name
Named(path, name) ==
    {j \in 1..Len(files[path].classes) : files[path].classes[j].name = name}

\* faulty variant: _examine_class stops at the first class of the name
next_klass_break_at_first(f) ==
    IF f.fn = Driver
    THEN IF f.k < Len(files[f.path].classes) THEN f.k + 1 ELSE 0
    ELSE IF f.k # 0 \/ Named(f.path, f.class_name) = {} THEN 0
         ELSE SetMin(Named(f.path, f.class_name))

\* the class statement the for loop visits next, 0 when the loop is over:
\* find_python_tests visits every class, _examine_class every class whose
\* name is class_name
next_klass(f) ==
    IF f.fn = Driver
    THEN IF f.k < Len(files[f.path].classes) THEN f.k + 1 ELSE 0
    ELSE LET later == {j \in Named(f.path, f.class_name) : j > f.k} IN
         IF later = {} THEN 0 ELSE SetMin(later)

\* faulty variant: the disable directive is not looked at
branch_ignoring_disable(docstring) ==
    IF check_docstring_directive(docstring, "enable") THEN "enable" ELSE "discover"

\* faulty variant: the enable directive is not looked at
branch_ignoring_enable(docstring) ==
    IF check_docstring_directive(docstring, "disable") THEN "disable" ELSE "discover"

\* which way find_python_tests treats a class, from its docstring
branch(docstring) ==
    IF check_docstring_directive(docstring, "disable") THEN "disable"
    ELSE IF check_docstring_directive(docstring, "enable") THEN "enable"
    ELSE "discover"

\* faulty variant: every class starts as matched
initial_match_always(module, klass, docstring) == TRUE

\* the match find_python_tests starts the discovery of a class with
initial_match(module, klass, docstring) ==
    IF check_docstring_directive(docstring, "recursive") THEN TRUE
    ELSE is_matching_klass(module, klass)

\* faulty variant: determine_match is asked again although match is set
examine_match_redecided(match, module, klass, docstring) ==
    DetermineMatch(module, klass, docstring)

\* the match _examine_class goes on with at a class named class_name
examine_match(match, module, klass, docstring) ==
    IF match = FALSE THEN DetermineMatch(module, klass, docstring) ELSE match

\* faulty variant: a disabled ancestor is added to the set
examine_disabled_collecting(disabled, klass) ==
    IF check_docstring_directive(klass.doc, "disable")
    THEN disabled \cup {klass.name} ELSE disabled

\* the disabled set of _examine_class after it met a class named class_name
examine_disabled(disabled, klass) == disabled

\* result[key] = info on an OrderedDict; by is a history field, the class
\* statement whose processing stored the entry
DictSet(d, key, info, by) ==
    IF \E n \in 1..Len(d) : d[n].name = key
    THEN [n \in 1..Len(d) |->
            IF d[n].name = key THEN [name |-> key, info |-> info, by |-> by] ELSE d[n]]
    ELSE Append(d, [name |-> key, info |-> info, by |-> by])

Keys(d) == {d[n].name : n \in 1..Len(d)}

\* _examine_same_module, after the call for parent copy[i] returned
same_module_merge(f, _info, _disable, _match) ==
    LET parent == f.copy[f.i] IN
    [f EXCEPT
       !.parents = IF _info # <<>> THEN ListRemove(f.parents, parent) ELSE @,
       !.info = IF _info # <<>> THEN _extend_test_list(f.info, _info) ELSE @,
       !.disabled = IF _info # <<>> THEN @ \cup _disable ELSE @,
       !.match = IF _match # f.match THEN _match ELSE @,
       !.i = @ + 1]

\* _examine_class, after the call for parent parents[i] returned
examine_cross_merge(f, _info, _disabled, _match) ==
    [f EXCEPT
       !.info = IF _info # <<>> THEN _extend_test_list(f.info, _info) ELSE @,
       !.disabled = IF _info # <<>> THEN @ \cup _disabled ELSE @,
       !.match = IF _match # f.match THEN _match ELSE @,
       !.i = @ + 1]

\* find_python_tests, after the call for parent parents[i] returned
driver_cross_merge(f, _info, _dis, _match) ==
    [f EXCEPT
       !.info = IF _info # <<>> THEN f.info \o _info ELSE @,
       !.disabled = IF _info # <<>> THEN @ \cup _dis ELSE @,
       !.match = IF _match # f.match THEN _match ELSE @,
       !.i = @ + 1]

\* the call the loop over the remaining parents makes for a parent, if any
CrossTarget(f, parent) ==
    LET a == _get_attributes_for_further_examination(parent, PythonModule(f.path))
        origin == find_spec(a.parent_module)
    IN IF a.exc = ClassNotSuitable \/ origin = None
       THEN [found |-> FALSE, path |-> None, class_name |-> None]
       ELSE [found |-> TRUE, path |-> origin, class_name |-> a.parent_class]

Running == pc = "run"
AtLoopHead(fn) == Running /\ Top.fn = fn /\ Top.phase = "iter"

\* find_python_tests meets a class whose docstring disables it
DisableClass ==
    /\ AtLoopHead(Driver) /\ next_klass(Top) # 0
    /\ LET j == next_klass(Top)
           klass == files[Top.path].classes[j]
       IN /\ branch(klass.doc) = "disable"
          /\ stack' = SetTop([Top EXCEPT !.k = j, !.disabled = @ \cup {klass.name}])
    /\ UNCHANGED <<files, determine_match, pc, result>>

\* find_python_tests meets a class whose docstring enables it
EnableClass ==
    /\ AtLoopHead(Driver) /\ next_klass(Top) # 0
    /\ LET j == next_klass(Top)
           klass == files[Top.path].classes[j]
       IN /\ branch(klass.doc) = "enable"
          /\ stack' = SetTop([Top EXCEPT !.k = j])
          /\ result' = DictSet(result, klass.name, OwnInfo(Top.path, j), j)
    /\ UNCHANGED <<files, determine_match, pc>>

\* find_python_tests starts the recursive discovery of a class
StartDiscovery ==
    /\ AtLoopHead(Driver) /\ next_klass(Top) # 0
    /\ LET j == next_klass(Top)
           klass == files[Top.path].classes[j]
       IN /\ branch(klass.doc) = "discover"
          /\ stack' = SetTop([Top EXCEPT
                 !.k = j,
                 !.match = initial_match(PythonModule(Top.path), klass, klass.doc),
                 !.info = OwnInfo(Top.path, j),
                 !.parents = klass.bases,
                 !.copy = klass.bases,
                 !.i = 1,
                 !.phase = "same"])
    /\ UNCHANGED <<files, determine_match, pc, result>>

\* _examine_class meets a class named class_name
ExamineKlass ==
    /\ AtLoopHead(Examine) /\ next_klass(Top) # 0
    /\ LET j == next_klass(Top)
           klass == files[Top.path].classes[j]
       IN stack' = SetTop([Top EXCEPT
                 !.k = j,
                 !.match = examine_match(Top.match, PythonModule(Top.path),
                                         klass, klass.doc),
                 !.info = OwnInfo(Top.path, j),
                 !.disabled = examine_disabled(@, klass),
                 !.parents = klass.bases,
                 !.copy = klass.bases,
                 !.i = 1,
                 !.phase = "same"])
    /\ UNCHANGED <<files, determine_match, pc, result>>

\* _examine_same_module skips a parent that is not a plain name
SameSkip ==
    /\ Running /\ Top.phase = "same" /\ Top.i <= Len(Top.copy)
    /\ Top.copy[Top.i].kind # "Name"
    /\ stack' = SetTop([Top EXCEPT !.i = @ + 1])
    /\ UNCHANGED <<files, determine_match, pc, result>>

\* _examine_same_module looks a parent up in the same file
SameCall ==
    /\ Running /\ Top.phase = "same" /\ Top.i <= Len(Top.copy)
    /\ Top.copy[Top.i].kind = "Name"
    /\ Len(stack) < MaxDepth
    /\ stack' = Append(stack, ExamineFrame(Top.path, Top.copy[Top.i].id, Top.match))
    /\ UNCHANGED <<files, determine_match, pc, result>>

\* _examine_same_module returns; the loop over the parents left starts
SameDone ==
    /\ Running /\ Top.phase = "same" /\ Top.i > Len(Top.copy)
    /\ stack' = SetTop([Top EXCEPT !.phase = "cross", !.i = 1])
    /\ UNCHANGED <<files, determine_match, pc, result>>

\* a parent left is not importable: ClassNotSuitable, or no module found
CrossSkip ==
    /\ Running /\ Top.phase = "cross" /\ Top.i <= Len(Top.parents)
    /\ ~CrossTarget(Top, Top.parents[Top.i]).found
    /\ stack' = SetTop([Top EXCEPT !.i = @ + 1])
    /\ UNCHANGED <<files, determine_match, pc, result>>

\* a parent left is looked up in the file it is imported from
CrossCall ==
    /\ Running /\ Top.phase = "cross" /\ Top.i <= Len(Top.parents)
    /\ LET t == CrossTarget(Top, Top.parents[Top.i]) IN
          /\ t.found
          /\ Len(stack) < MaxDepth
          /\ stack' = Append(stack, ExamineFrame(t.path, t.class_name, Top.match))
    /\ UNCHANGED <<files, determine_match, pc, result>>

\* a call would exceed the recursion limit: RecursionError, which nothing catches
RecursionError ==
    /\ Running /\ Len(stack) >= MaxDepth
    /\ \/ Top.phase = "same" /\ Top.i <= Len(Top.copy) /\ Top.copy[Top.i].kind = "Name"
       \/ Top.phase = "cross" /\ Top.i <= Len(Top.parents)
             /\ CrossTarget(Top, Top.parents[Top.i]).found
    /\ pc' = "raised"
    /\ UNCHANGED <<files, determine_match, stack, result>>

\* _examine_class is done with one class named class_name and looks for more
EndKlass ==
    /\ Running /\ Top.fn = Examine /\ Top.phase = "cross" /\ Top.i > Len(Top.parents)
    /\ stack' = SetTop([Top EXCEPT
           !.phase = "iter",
           !.first = IF @ = <<>> THEN <<[info |-> Top.info, match |-> Top.match]>>
                     ELSE @])
    /\ UNCHANGED <<files, determine_match, pc, result>>

\* _examine_class returns (info, disabled, match) and its caller merges them
Return ==
    /\ AtLoopHead(Examine) /\ next_klass(Top) = 0
    /\ LET caller == stack[Len(stack) - 1]
           merged == IF caller.phase = "same"
                     THEN same_module_merge(caller, Top.info, Top.disabled, Top.match)
                     ELSE IF caller.fn = Examine
                     THEN examine_cross_merge(caller, Top.info, Top.disabled, Top.match)
                     ELSE driver_cross_merge(caller, Top.info, Top.disabled, Top.match)
       IN stack' = Append(SubSeq(stack, 1, Len(stack) - 2), merged)
    /\ UNCHANGED <<files, determine_match, pc, result>>

\* find_python_tests records a class if it matched
Record ==
    /\ Running /\ Top.fn = Driver /\ Top.phase = "cross" /\ Top.i > Len(Top.parents)
    /\ result' = IF Top.match
                 THEN DictSet(result, files[Top.path].classes[Top.k].name,
                              Top.info, Top.k)
                 ELSE result
    /\ stack' = SetTop([Top EXCEPT !.phase = "iter"])
    /\ UNCHANGED <<files, determine_match, pc>>

\* find_python_tests returns (result, disabled)
Finish ==
    /\ AtLoopHead(Driver) /\ next_klass(Top) = 0
    /\ pc' = "done"
    /\ UNCHANGED <<files, determine_match, stack, result>>

Next ==
    \/ DisableClass
    \/ EnableClass
    \/ StartDiscovery
    \/ ExamineKlass
    \/ SameSkip
    \/ SameCall
    \/ SameDone
    \/ CrossSkip
    \/ CrossCall
    \/ RecursionError
    \/ EndKlass
    \/ Return
    \/ Record
    \/ Finish

Spec == Init /\ [][Next]_vars

(***************************************************************************)
(* Vocabulary of the properties.                                           *)
(***************************************************************************)
Done == pc = "done"

\* the classes of the scanned file, and the disabled set find_python_tests returns
Scanned == files["a"].classes
Disabled == stack[1].disabled

HasFlag(klass, flag) == check_docstring_directive(klass.doc, flag)

\* a method list without the history field
Strip(info) ==
    [n \in 1..Len(info) |->
        [name |-> info[n].name, tags |-> info[n].tags, reqs |-> info[n].reqs]]

\* the names of the test-prefixed def statements of a class body
TestNames(klass) ==
    {klass.body[n].name : n \in {m \in 1..Len(klass.body) : StartsWithTest(klass.body[m].name)}}

\* the first def statement of a class that carries a name
FirstDef(klass, name) ==
    klass.body[SetMin({n \in 1..Len(klass.body) : klass.body[n].name = name})]

\* the entries of a list whose names a set does not hold
Except(info, names) ==
    LET Fresh(e) == e.name \notin names IN SelectSeq(info, Fresh)

\* a base written alias.Class whose alias the import table of "a" lacks
UnresolvedQualified(base) ==
    base.kind = "Attribute" /\ base.id \notin DOMAIN files["a"].imports

AllBasesUnresolved(klass) ==
    /\ klass.bases # <<>>
    /\ \A n \in 1..Len(klass.bases) : UnresolvedQualified(klass.bases[n])

\* a class that find_python_tests is to accept on its enable directive
EnableDirected(klass) == HasFlag(klass, "enable") /\ ~HasFlag(klass, "disable")

\* an _examine_class activation that is about to return
Returning(f) == f.fn = Examine /\ f.phase = "iter" /\ next_klass(f) = 0

(***************************************************************************)
(* C1.  As claimed: once find_python_tests has returned, the name of every *)
(* top-level class with a disable directive is in the disabled set and is  *)
(* no key of the result mapping, whatever else the file declares.          *)
(***************************************************************************)
C1_DisabledNameNeverKey ==
    Done => \A i \in 1..Len(Scanned) :
              HasFlag(Scanned[i], "disable")
              => /\ Scanned[i].name \in Disabled
                 /\ Scanned[i].name \notin Keys(result)

(***************************************************************************)
(* C1, amended.  The name of every top-level class with a disable          *)
(* directive is in the disabled set and that class statement stores no     *)
(* entry in the result mapping: its name is a key only through another     *)
(* top-level class of the same name that carries no disable directive.     *)
(***************************************************************************)
C1_DisabledClassNeverRecorded ==
    Done => \A i \in 1..Len(Scanned) :
              HasFlag(Scanned[i], "disable")
              => /\ Scanned[i].name \in Disabled
                 /\ \A n \in 1..Len(result) :
                       /\ result[n].by # i
                       /\ result[n].name = Scanned[i].name
                          => ~HasFlag(Scanned[result[n].by], "disable")

\* a disabled class with bases, whose name is a key through a namesake
C1_Witness ==
    /\ Done
    /\ \E i \in 1..Len(Scanned) :
          /\ HasFlag(Scanned[i], "disable")
          /\ Scanned[i].bases # <<>>
          /\ Scanned[i].name \in Disabled
          /\ Scanned[i].name \in Keys(result)

(***************************************************************************)
(* C2.  As claimed: for every top-level class with an enable directive and *)
(* no disable directive the result mapping holds, under the class name,    *)
(* exactly the class's own test methods, and the resolver is not invoked   *)
(* for the class.                                                          *)
(***************************************************************************)
C2_EnabledOwnMethods ==
    /\ (Len(stack) > 1 => ~EnableDirected(Scanned[stack[1].k]))
    /\ Done => \A i \in 1..Len(Scanned) :
                 EnableDirected(Scanned[i])
                 => \E n \in 1..Len(result) :
                       /\ result[n].name = Scanned[i].name
                       /\ Strip(result[n].info) = Strip(OwnInfo("a", i))

(***************************************************************************)
(* C2, amended.  The class name is a key of the result mapping; unless a   *)
(* later top-level class of the same name was recorded in its place, the   *)
(* entry holds exactly the class's own test-prefixed methods, one entry    *)
(* per name, and nothing of an ancestor; the resolver is not invoked for   *)
(* the class.                                                              *)
(***************************************************************************)
C2_EnabledOwnMethodsUnlessReplaced ==
    /\ (Len(stack) > 1 => ~EnableDirected(Scanned[stack[1].k]))
    /\ Done => \A i \in 1..Len(Scanned) :
                 EnableDirected(Scanned[i])
                 => \E n \in 1..Len(result) :
                       /\ result[n].name = Scanned[i].name
                       /\ result[n].by >= i
                       /\ result[n].by = i
                          => /\ Strip(result[n].info) = Strip(OwnInfo("a", i))
                             /\ MethodNames(result[n].info) = TestNames(Scanned[i])
                             /\ UniqueNames(result[n].info)
                             /\ \A m \in 1..Len(result[n].info) :
                                   result[n].info[m].decl = <<"a", i>>

\* an enabled class recorded with its own methods although a same-file
\* ancestor declares test methods
C2_Witness ==
    /\ Done
    /\ \E i \in 1..Len(Scanned), n \in 1..Len(result) :
          /\ EnableDirected(Scanned[i])
          /\ result[n].by = i
          /\ result[n].info # <<>>
          /\ \E b \in 1..Len(Scanned[i].bases), j \in 1..Len(Scanned) :
                /\ Scanned[i].bases[b] = Name(Scanned[j].name)
                /\ OwnInfo("a", j) # <<>>

(***************************************************************************)
(* C3.  As claimed: a recorded method list holds one entry per method name *)
(* and the entries of the class itself come first, unchanged; for the      *)
(* lists of find_python_tests and for those built inside _examine_class.   *)
(***************************************************************************)
C3_OneEntryPerName ==
    /\ \A n \in 1..Len(result) :
          /\ UniqueNames(result[n].info)
          /\ IsPrefix(Strip(OwnInfo("a", result[n].by)), Strip(result[n].info))
    /\ \A d \in 1..Len(stack) :
          stack[d].phase # "iter"
          => /\ UniqueNames(stack[d].info)
             /\ IsPrefix(Strip(OwnInfo(stack[d].path, stack[d].k)), Strip(stack[d].info))

(***************************************************************************)
(* C4.  As claimed: in a recorded list every entry of the class itself     *)
(* carries its own docstring tags and the class-level tags of every        *)
(* ancestor that contributed to the list.                                  *)
(***************************************************************************)
C4_TagsIncludeAncestors ==
    \A n \in 1..Len(result) :
       \A e1, e2 \in Range(result[n].info) :
          LET k1 == files[e1.decl[1]].classes[e1.decl[2]]
              k2 == files[e2.decl[1]].classes[e2.decl[2]]
          IN /\ get_docstring_directives_tags(FirstDef(k1, e1.name).doc) \subseteq e1.tags
             /\ e1.decl = <<"a", result[n].by>>
                => get_docstring_directives_tags(k2.doc) \subseteq e1.tags

(***************************************************************************)
(* C4, amended.  Every entry of a method list carries the method's own     *)
(* docstring tags and the class-level tags of the class that declares the  *)
(* method; the class-level tags of an ancestor reach only the entries that *)
(* ancestor contributes.                                                   *)
(***************************************************************************)
EntryTagsOK(e) ==
    LET klass == files[e.decl[1]].classes[e.decl[2]] IN
    /\ get_docstring_directives_tags(FirstDef(klass, e.name).doc) \subseteq e.tags
    /\ get_docstring_directives_tags(klass.doc) \subseteq e.tags

C4_TagsIncludeDeclaringClass ==
    /\ \A n \in 1..Len(result) : \A e \in Range(result[n].info) : EntryTagsOK(e)
    /\ \A d \in 1..Len(stack) : \A e \in Range(stack[d].info) : EntryTagsOK(e)

\* a recorded list with an inherited entry that carries its own tags and the
\* tags of the ancestor, next to an own entry that lacks the ancestor's tags
C4_Witness ==
    /\ Done
    /\ \E n \in 1..Len(result) : \E e1, e2 \in Range(result[n].info) :
          LET k2 == files[e2.decl[1]].classes[e2.decl[2]] IN
          /\ e1.decl = <<"a", result[n].by>>
          /\ e2.decl # e1.decl
          /\ get_docstring_directives_tags(k2.doc) # {}
          /\ get_docstring_directives_tags(FirstDef(k2, e2.name).doc) # {}
          /\ ~(get_docstring_directives_tags(k2.doc) \subseteq e1.tags)

(***************************************************************************)
(* C5.  As claimed: a top-level class with a base alias.Class whose alias  *)
(* the import table lacks is reported in the result mapping, with only its *)
(* own methods, and discovery does not fail.                               *)
(***************************************************************************)
C5_UnresolvedBaseReported ==
    Done => \A i \in 1..Len(Scanned) :
              (\E b \in 1..Len(Scanned[i].bases) : UnresolvedQualified(Scanned[i].bases[b]))
              => \E n \in 1..Len(result) :
                    /\ result[n].name = Scanned[i].name
                    /\ Strip(result[n].info) = Strip(OwnInfo("a", i))

(***************************************************************************)
(* C5, amended.  Such a base is skipped without an error and without a     *)
(* call of the resolver, and it contributes no match: a class all of whose *)
(* bases are such references is recorded, with only its own methods, only  *)
(* if its docstring carries enable or recursive; with no directive it      *)
(* stores no entry in the result mapping.                                  *)
(***************************************************************************)
C5_UnresolvedBaseSkipped ==
    /\ stack[1].k # 0 /\ AllBasesUnresolved(Scanned[stack[1].k])
       => Len(stack) = 1 /\ pc # "raised"
    /\ Done => \A i \in 1..Len(Scanned) :
                 AllBasesUnresolved(Scanned[i])
                 => /\ \A n \in 1..Len(result) :
                          result[n].by = i
                          => /\ Strip(result[n].info) = Strip(OwnInfo("a", i))
                             /\ \/ HasFlag(Scanned[i], "enable")
                                \/ HasFlag(Scanned[i], "recursive")
                    /\ (HasFlag(Scanned[i], "recursive") /\ ~HasFlag(Scanned[i], "disable"))
                       => \E n \in 1..Len(result) :
                             result[n].name = Scanned[i].name /\ result[n].by >= i

\* discovery returned, a class with an unresolved qualified base and no
\* directive is absent from the mapping, one with recursive is recorded
C5_Witness ==
    /\ Done
    /\ \E i \in 1..Len(Scanned) :
          /\ AllBasesUnresolved(Scanned[i])
          /\ Scanned[i].doc.flags = {}
          /\ \A n \in 1..Len(result) : result[n].by # i
    /\ \E i \in 1..Len(Scanned), n \in 1..Len(result) :
          /\ AllBasesUnresolved(Scanned[i])
          /\ HasFlag(Scanned[i], "recursive")
          /\ result[n].by = i

(***************************************************************************)
(* C6.  The file of scenario C: class i derives from the target under its  *)
(* imported name and declares test methods, class j derives from class i,  *)
(* neither carries a directive and neither name is declared twice.         *)
(***************************************************************************)
ScenarioC(i, j) ==
    /\ i # j
    /\ Scanned[i].doc.flags = {} /\ Scanned[j].doc.flags = {}
    /\ Scanned[i].bases = <<Name(target_class)>>
    /\ Scanned[j].bases = <<Name(Scanned[i].name)>>
    /\ Named("a", Scanned[i].name) = {i} /\ Named("a", Scanned[j].name) = {j}
    /\ OwnInfo("a", i) # <<>>

ResultOf(name) == result[CHOOSE n \in 1..Len(result) : result[n].name = name]

(***************************************************************************)
(* C6.  As claimed: both classes are reported, the base with its own       *)
(* methods and the child with the inherited methods followed by its own.   *)
(***************************************************************************)
C6_InheritedThenOwn ==
    Done => \A i, j \in 1..Len(Scanned) :
              (ScenarioC(i, j)
                 /\ MethodNames(OwnInfo("a", i)) \cap MethodNames(OwnInfo("a", j)) = {})
              => /\ {Scanned[i].name, Scanned[j].name} \subseteq Keys(result)
                 /\ Strip(ResultOf(Scanned[i].name).info) = Strip(OwnInfo("a", i))
                 /\ Strip(ResultOf(Scanned[j].name).info)
                      = Strip(OwnInfo("a", i) \o OwnInfo("a", j))

(***************************************************************************)
(* C6, amended.  Both classes are reported, the base with its own methods  *)
(* and the child with its own methods followed by the inherited ones it    *)
(* does not override (Base -> [test_a], Child -> [test_b, test_a]); every  *)
(* list recorded by the discovery begins with the class's own methods.     *)
(***************************************************************************)
C6_OwnThenInherited ==
    Done => /\ \A i, j \in 1..Len(Scanned) :
                 ScenarioC(i, j)
                 => /\ {Scanned[i].name, Scanned[j].name} \subseteq Keys(result)
                    /\ Strip(ResultOf(Scanned[i].name).info) = Strip(OwnInfo("a", i))
                    /\ Strip(ResultOf(Scanned[j].name).info)
                         = Strip(OwnInfo("a", j) \o Except(OwnInfo("a", i),
                                                           MethodNames(OwnInfo("a", j))))
            /\ \A n \in 1..Len(result) :
                 IsPrefix(Strip(OwnInfo("a", result[n].by)), Strip(result[n].info))

\* scenario C with a child that declares a method of its own and inherits one
C6_Witness ==
    /\ Done
    /\ \E i, j \in 1..Len(Scanned) :
          /\ ScenarioC(i, j)
          /\ OwnInfo("a", j) # <<>>
          /\ Len(ResultOf(Scanned[j].name).info) > Len(OwnInfo("a", j))

(***************************************************************************)
(* C7.  As claimed: every call returns, so no run of find_python_tests     *)
(* ends in the RecursionError of a recursion that never bottoms out.       *)
(***************************************************************************)
C7_EveryCallReturns == pc # "raised"

(***************************************************************************)
(* C8.  The match state is monotone: within one activation (for            *)
(* find_python_tests, within the discovery of one class) a match that is   *)
(* TRUE stays TRUE at every step, merges included, and a call made with a  *)
(* TRUE match returns TRUE, also when it finds no class of the name.       *)
(***************************************************************************)
MatchKept ==
    /\ \A d \in 1..Len(stack) :
          (d <= Len(stack') /\ (d = 1 => stack'[1].k = stack[1].k))
          => (stack[d].match => stack'[d].match)
    /\ Len(stack') < Len(stack) => (stack[Len(stack) - 1].match => Top.match)

C8_MatchMonotone == [][MatchKept]_vars

\* a call made with a TRUE match found no class of the name and is about to
\* return to a caller whose match is TRUE
C8_Witness ==
    /\ Len(stack) > 1 /\ Returning(Top)
    /\ Top.k = 0 /\ Top.match
    /\ stack[Len(stack) - 1].match
    /\ Len(stack) > 2 /\ stack[Len(stack) - 1].k # 0

(***************************************************************************)
(* C9.  As claimed: of several classes of the requested name only the      *)
(* first is examined, so what a call returns is what the first gave.       *)
(***************************************************************************)
C9_FirstClassOnly ==
    \A d \in 2..Len(stack) :
       (Returning(stack[d]) /\ stack[d].first # <<>>)
       => /\ Strip(stack[d].info) = Strip(stack[d].first[1].info)
          /\ stack[d].match = stack[d].first[1].match

(***************************************************************************)
(* C9, amended.  A call examines every class of the requested name, in     *)
(* declaration order; the method list starts afresh at each, so the list   *)
(* returned is the one built from the last such class, and the match state *)
(* is carried from each class to the next.                                 *)
(***************************************************************************)
C9_LastClassWins ==
    \A d \in 2..Len(stack) :
       LET f == stack[d] IN
       (Returning(f) /\ Named(f.path, f.class_name) # {})
       => /\ f.k = SetMax(Named(f.path, f.class_name))
          /\ IsPrefix(Strip(OwnInfo(f.path, f.k)), Strip(f.info))
          /\ \A n \in 1..Len(f.info) :
                f.info[n].decl = <<f.path, f.k>> \/ f.info[n].decl[2] \notin
                   (IF f.info[n].decl[1] = f.path
                    THEN Named(f.path, f.class_name) ELSE {})
          /\ f.first # <<>> /\ (f.first[1].match => f.match)

\* a call over two classes of one name returns a list the first did not give
C9_Witness ==
    \E d \in 2..Len(stack) :
       /\ Returning(stack[d])
       /\ Cardinality(Named(stack[d].path, stack[d].class_name)) > 1
       /\ stack[d].first # <<>>
       /\ stack[d].first[1].info # <<>>
       /\ Strip(stack[d].info) # Strip(stack[d].first[1].info)

====
